---- MODULE Spec2Model ----
(***************************************************************************)
(* audio-batch-speedup: the parallel per-file pipeline of                  *)
(* process_audio_files (src/src/lib.rs) over one directory of files.       *)
(*                                                                         *)
(* A file name is a sequence of characters (one-character strings); the    *)
(* element InvalidByte stands for a byte that is not valid UTF-8.  A file's *)
(* content is a record [origin, bytes, ver]  : the name it was first stored  *)
(* under, its leading bytes, and how many times it went through ffmpeg.    *)
(***************************************************************************)
EXTENDS Integers, Sequences, FiniteSets, TLC

\* ------------------------------------------------------------------ bounds
\* Largest number of files present in the folder when the run starts.
MaxFiles == 3
\* Number of rayon worker threads.
NumWorkers == 2

\* --------------------------------------------------------- AudioFormat bits
OGG == 1
MP3 == 2
WAV == 4
FLAC == 8
AAC == 16
OPUS == 32
ALAC == 64
WMA == 128
ALL == OGG + MP3 + WAV + FLAC + AAC + OPUS + ALAC + WMA

\* Option<AudioFormat>::None (no bit set); Option<T> of any other type is a
\* sequence: <<>> for None, <<x>> for Some(x).
NoFormat == 0

RECURSIVE BitAnd(_, _)
\* Bitwise and of two naturals (u8 / u32 operands of the source).
BitAnd(a, b) ==
    IF a = 0 \/ b = 0 THEN 0
    ELSE (IF a % 2 = 1 /\ b % 2 = 1 THEN 1 ELSE 0) + 2 * BitAnd(a \div 2, b \div 2)

\* bitflags contains(): every bit of other is set in self.
contains(self, other) == BitAnd(self, other) = other

\* ------------------------------------------------------------- file names
InvalidByte == "xFF"

TempPrefix == <<"t", "e", "m", "p", "_">>

UpperAlpha == <<"A", "B", "C", "D", "E", "F", "G", "H", "I", "J", "K", "L", "M",
                "N", "O", "P", "Q", "R", "S", "T", "U", "V", "W", "X", "Y", "Z">>
LowerAlpha == <<"a", "b", "c", "d", "e", "f", "g", "h", "i", "j", "k", "l", "m",
                "n", "o", "p", "q", "r", "s", "t", "u", "v", "w", "x", "y", "z">>

\* char::to_lowercase on the ASCII letters.
LowerChar(c) ==
    IF \E i \in 1..Len(UpperAlpha) : UpperAlpha[i] = c
    THEN LowerAlpha[CHOOSE i \in 1..Len(UpperAlpha) : UpperAlpha[i] = c]
    ELSE c

\* A comparison that forgets to lower-case.
to_lowercase_none(s) == s

\* str::to_lowercase.
to_lowercase(s) == [i \in 1..Len(s) |-> LowerChar(s[i])]

\* OsStr::to_str succeeds only on valid UTF-8.
IsUtf8(s) == \A i \in 1..Len(s) : s[i] # InvalidByte

\* Path::extension: the part of the file name after its last '.', none when
\* there is no '.' or the only '.' is the first character.
extension(name) ==
    LET dots == {i \in 1..Len(name) : name[i] = "."}
    IN  IF dots = {} THEN <<>>
        ELSE LET last == CHOOSE i \in dots : \A j \in dots : j <= i
             IN  IF last = 1 THEN <<>> ELSE <<SubSeq(name, last + 1, Len(name))>>

\* path.with_file_name(format!("temp_{}", file_name)): the sibling temp path.
output_file(name) == TempPrefix \o name

\* ---------------------------------------------------- detect_audio_format
\* The magic-byte tests with the frame sync the source comment names
\* (0xFF followed by 0xFB or 0xFA) in place of the mask.
MagicFormatFBFA(buffer) ==
    IF SubSeq(buffer, 1, 4) = <<79, 103, 103, 83>> THEN OGG
    ELSE IF SubSeq(buffer, 1, 3) = <<73, 68, 51>>
            \/ (buffer[1] = 255 /\ buffer[2] \in {250, 251}) THEN MP3
    ELSE IF SubSeq(buffer, 1, 4) = <<82, 73, 70, 70>>
            /\ SubSeq(buffer, 9, 12) = <<87, 65, 86, 69>> THEN WAV
    ELSE IF SubSeq(buffer, 1, 4) = <<102, 76, 97, 67>> THEN FLAC
    ELSE IF SubSeq(buffer, 1, 4) = <<48, 38, 178, 117>> THEN WMA
    ELSE NoFormat

\* The magic-byte tests on the 12-byte buffer.
MagicFormat(buffer) ==
    IF SubSeq(buffer, 1, 4) = <<79, 103, 103, 83>> THEN OGG
    ELSE IF SubSeq(buffer, 1, 3) = <<73, 68, 51>>
            \/ (buffer[1] = 255 /\ BitAnd(buffer[2], 246) = 242) THEN MP3
    ELSE IF SubSeq(buffer, 1, 4) = <<82, 73, 70, 70>>
            /\ SubSeq(buffer, 9, 12) = <<87, 65, 86, 69>> THEN WAV
    ELSE IF SubSeq(buffer, 1, 4) = <<102, 76, 97, 67>> THEN FLAC
    ELSE IF SubSeq(buffer, 1, 4) = <<48, 38, 178, 117>> THEN WMA
    ELSE NoFormat

\* The extension table, applied to the lower-cased extension.
ExtensionFormat(name) ==
    LET ext == extension(name)
    IN  IF ext = <<>> \/ ~IsUtf8(ext[1]) THEN NoFormat
        ELSE LET e == to_lowercase(ext[1])
             IN  IF e = <<"o", "g", "g">> THEN OGG
                 ELSE IF e = <<"m", "p", "3">> THEN MP3
                 ELSE IF e = <<"w", "a", "v">> THEN WAV
                 ELSE IF e = <<"f", "l", "a", "c">> THEN FLAC
                 ELSE IF e = <<"m", "4", "a">> \/ e = <<"a", "a", "c">> THEN AAC
                 ELSE IF e = <<"o", "p", "u", "s">> THEN OPUS
                 ELSE IF e = <<"a", "l", "a", "c">> THEN ALAC
                 ELSE IF e = <<"w", "m", "a">> THEN WMA
                 ELSE NoFormat

\* A detection that trusts the extension first and the content second.
detect_extension_first(name, opened) ==
    LET m == IF opened # <<>> /\ Len(opened[1]) >= 12
             THEN MagicFormat(SubSeq(opened[1], 1, 12)) ELSE NoFormat
    IN  IF ExtensionFormat(name) # NoFormat THEN ExtensionFormat(name) ELSE m

\* detect_audio_format(path): opened is <<bytes>> with the file's leading
\* bytes, or <<>> when File::open fails; read_exact fails on fewer than 12.
detect_audio_format(name, opened) ==
    LET m == IF opened # <<>> /\ Len(opened[1]) >= 12
             THEN MagicFormat(SubSeq(opened[1], 1, 12)) ELSE NoFormat
    IN  IF m # NoFormat THEN m ELSE ExtensionFormat(name)

\* ------------------------------------------------- the folder and its files
\* The file names a folder may hold when the run starts, each with the
\* leading bytes of its content.
NameOgg == <<"a", ".", "o", "g", "g">>
NameTempOgg == <<"t", "e", "m", "p", "_", "a", ".", "o", "g", "g">>
NameTxt == <<"b", ".", "t", "x", "t">>
NameDat == <<"c", ".", "d", "a", "t">>
NameBadUtf8 == <<InvalidByte, ".", "m", "p", "3">>

Pool == {NameOgg, NameTempOgg, NameTxt, NameDat, NameBadUtf8}

BytesOf(name) ==
    IF name \in {NameOgg, NameTempOgg}
    THEN <<79, 103, 103, 83, 0, 2, 0, 0, 0, 0, 0, 0>>
    ELSE IF name = NameDat THEN <<73, 68, 51, 4, 0, 0, 0, 0, 0, 0, 0, 0>>
    ELSE <<1, 2, 3, 4, 5, 6, 7, 8, 9, 10, 11, 12>>

\* The content a file of the pool has before the run.
Original(name) == [origin |-> name, bytes |-> BytesOf(name), ver |-> 0]

\* Every path the run can touch: the files and their temp siblings.
Paths == Pool \cup {output_file(n) : n \in {m \in Pool : IsUtf8(m)}}

\* What the environment does to a file's transform: the behaviour of the
\* ffmpeg subprocess and of the rename / remove_file system calls.  It is one
\* fixed answer per file, drawn when the closure launches ffmpeg on it.
Outcomes == {"ok", "spawn_err", "exit_fail", "exit_fail_notemp",
             "rename_err", "remove_err"}

Workers == 1..NumWorkers

VARIABLES
    fs,             \* path -> <<content>>, or <<>> when no file is there
    env,            \* file -> the environment's behaviour for its transform,
                    \*         "unset" until ffmpeg is launched on the file
    formats,        \* the selected AudioFormat set
    run,            \* "main", "parsed" (in main, before the call), then
                    \* "init", "running", "done", "aborted" (panic unwound)
    files,          \* the enumerated entries
    queue,          \* entries not yet handed to a worker
    pc,             \* worker -> position in the closure
    cur,            \* worker -> <<file>> it is handling, or <<>>
    error_count,    \* AtomicUsize
    skipped_count,  \* AtomicUsize
    pos,            \* progress bar position
    len,            \* progress bar length
    errors,         \* error_count as loaded after the loop
    skipped,        \* skipped_count as loaded after the loop
    panicked,       \* a closure call panicked
    outcome,        \* history: file -> how its handling ended
    handled,        \* history: file -> number of times it was dequeued
    root,           \* what args.input is: "missing", "file" or "dir"
    args_formats,   \* <<the --formats string>> while main parses it
    exit_code,      \* the process's exit status, -1 while it runs
    d_name,         \* detect_audio_format applied alone: the file name,
    d_opened,       \*   <<its leading bytes>> or <<>> (open failed),
    d_result        \*   <<the format returned>>, <<>> before the call

\* The variables of main and those of the stand-alone detection.
mvars == <<root, args_formats, exit_code>>
dvars == <<d_name, d_opened, d_result>>

vars == <<fs, env, formats, run, files, queue, pc, cur, error_count,
          skipped_count, pos, len, errors, skipped, panicked, outcome, handled,
          mvars, dvars>>

\* -------------------------------------------------------------- filesystem
\* Path::is_file / Path::exists on a path of the folder.
is_file(f, p) == f[p] # <<>>

\* File::open + read: the leading bytes, or <<>> when the open fails.
open_read(f, p) == IF f[p] = <<>> THEN <<>> ELSE <<f[p][1].bytes>>

\* What ffmpeg writes for an input content: the speed-adjusted audio.
Transcode(c) == [c EXCEPT !.ver = @ + 1]

\* std::fs::rename(from, to): replaces to, from is gone.
rename(f, from, to) == [f EXCEPT ![to] = f[from], ![from] = <<>>]

\* remove_file that reports success and leaves the file.
remove_file_kept(f, p) == f

\* std::fs::remove_file(p).
remove_file(f, p) == [f EXCEPT ![p] = <<>>]

\* An increment applied twice.
fetch_add_double(c) == c + 2

\* A load followed by a store: an increment made in between is lost.
fetch_add_racy(c) == IF c >= 1 THEN c ELSE c + 1

\* AtomicUsize::fetch_add(1, Relaxed): one indivisible read-modify-write.
fetch_add(c) == c + 1

\* An adaptor that advances the bar only for the first item of a worker.
progress_inc_first(p) == IF p >= NumWorkers THEN p ELSE p + 1

\* ProgressBar::inc(1), called by the progress_with adaptor for each item.
progress_inc(p) == p + 1

\* An iterator that hands out an entry and keeps it.
take_kept(q, f) == q

\* The parallel iterator moves an entry out of the Vec: it is handed out once.
take(q, f) == q \ {f}

\* ------------------------------------------------------ main: the selection
RECURSIVE BitOr(_, _)
\* Bitwise or of two naturals.
BitOr(a, b) ==
    IF a = 0 THEN b
    ELSE IF b = 0 THEN a
    ELSE (IF a % 2 = 1 \/ b % 2 = 1 THEN 1 ELSE 0) + 2 * BitOr(a \div 2, b \div 2)

\* A plain assignment where |= was meant: the last token wins.
assign(acc, bit) == bit

\* selected_formats |= AudioFormat::X.
or_assign(acc, bit) == BitOr(acc, bit)

\* AudioFormat::default(): the eight formats or-ed together.
Default ==
    BitOr(OGG, BitOr(MP3, BitOr(WAV, BitOr(FLAC, BitOr(AAC, BitOr(OPUS,
        BitOr(ALAC, WMA)))))))

RECURSIVE split(_)
\* str::split(','): the pieces between commas; one empty piece for "".
split(s) ==
    LET commas == {i \in 1..Len(s) : s[i] = ","}
    IN  IF commas = {} THEN <<s>>
        ELSE LET i == CHOOSE c \in commas : \A k \in commas : c <= k
             IN  <<SubSeq(s, 1, i - 1)>> \o split(SubSeq(s, i + 1, Len(s)))

RECURSIVE trim(_)
\* str::trim on blanks.
trim(s) ==
    IF s = <<>> THEN s
    ELSE IF Head(s) = " " THEN trim(Tail(s))
    ELSE IF s[Len(s)] = " " THEN trim(SubSeq(s, 1, Len(s) - 1))
    ELSE s

\* The match of main's loop on one lower-cased, trimmed token: the format's
\* bit, NoFormat for the `_` arm.
TokenFormat(t) ==
    IF t = <<"o", "g", "g">> THEN OGG
    ELSE IF t = <<"m", "p", "3">> THEN MP3
    ELSE IF t = <<"w", "a", "v">> THEN WAV
    ELSE IF t = <<"f", "l", "a", "c">> THEN FLAC
    ELSE IF t = <<"a", "a", "c">> THEN AAC
    ELSE IF t = <<"o", "p", "u", "s">> THEN OPUS
    ELSE IF t = <<"a", "l", "a", "c">> THEN ALAC
    ELSE IF t = <<"w", "m", "a">> THEN WMA
    ELSE NoFormat

RECURSIVE ParseTokensLenient(_, _)
\* A loop that passes over an unsupported token instead of stopping.
ParseTokensLenient(toks, acc) ==
    IF toks = <<>> THEN [ok |-> TRUE, set |-> acc]
    ELSE LET bit == TokenFormat(to_lowercase(trim(Head(toks))))
         IN  ParseTokensLenient(Tail(toks), BitOr(acc, bit))

RECURSIVE ParseTokens(_, _)
\* The for loop over the tokens: the set so far, or a stop at the first
\* unsupported token.
ParseTokens(toks, acc) ==
    IF toks = <<>> THEN [ok |-> TRUE, set |-> acc]
    ELSE LET bit == TokenFormat(to_lowercase(trim(Head(toks))))
         IN  IF bit = NoFormat THEN [ok |-> FALSE, set |-> acc]
             ELSE ParseTokens(Tail(toks), or_assign(acc, bit))

\* main's selection: "all" (any case) is ALL, otherwise the tokens or-ed
\* into the empty set.
ParseSelection(s) ==
    IF to_lowercase(s) = <<"a", "l", "l">> THEN [ok |-> TRUE, set |-> ALL]
    ELSE ParseTokens(split(s), NoFormat)

RECURSIVE Join(_)
\* The tokens of a list written with commas between them.
Join(toks) ==
    IF Len(toks) = 1 THEN toks[1]
    ELSE toks[1] \o <<",">> \o Join(Tail(toks))

\* The eight format names, in the order of the help text and reversed.
FormatNames ==
    << <<"o", "g", "g">>, <<"m", "p", "3">>, <<"w", "a", "v">>,
       <<"f", "l", "a", "c">>, <<"a", "a", "c">>, <<"o", "p", "u", "s">>,
       <<"a", "l", "a", "c">>, <<"w", "m", "a">> >>
NamesReversed == [i \in 1..Len(FormatNames) |-> FormatNames[Len(FormatNames) + 1 - i]]

\* The --formats strings a user may give.
FormatStrings ==
    { <<"a", "l", "l">>,
      <<"A", "l", "L">>,
      Join(FormatNames),
      Join(NamesReversed),
      <<"o", "g", "g">>,
      <<"o", "g", "g", ",", "o", "g", "g">>,
      <<" ", "O", "G", "G", " ", ",", "o", "g", "g">>,
      <<"x", "y", "z">>,
      <<"o", "g", "g", ",", "x", "y", "z">>,
      <<"o", "g", "g", ",", "a", "l", "l">>,
      <<"o", "g", "g", ",">>,
      <<>> }

\* -------------------------------------------------------------------- Init
\* The stand-alone detection at rest.
DetectIdle ==
    /\ d_name = <<>>
    /\ d_opened = <<>>
    /\ d_result = <<>>

\* main starts: args.input is missing, a file, or a folder holding files.
Init ==
    /\ formats = NoFormat
    /\ root \in {"missing", "file", "dir"}
    /\ \E present \in SUBSET Pool :
         /\ Cardinality(present) <= MaxFiles
         /\ root # "dir" => present = {}
         /\ fs = [p \in Paths |-> IF p \in present THEN <<Original(p)>> ELSE <<>>]
    /\ args_formats = <<>>
    /\ exit_code = -1
    /\ DetectIdle
    /\ env = [n \in Pool |-> "unset"]
    /\ run = "main"
    /\ files = {}
    /\ queue = {}
    /\ pc = [w \in Workers |-> "idle"]
    /\ cur = [w \in Workers |-> <<>>]
    /\ error_count = 0
    /\ skipped_count = 0
    /\ pos = 0
    /\ len = 0
    /\ errors = 0
    /\ skipped = 0
    /\ panicked = FALSE
    /\ outcome = [n \in Pool |-> "none"]
    /\ handled = [n \in Pool |-> 0]

\* ------------------------------------------------------------- enumeration
\* WalkDir ... filter(is_file).collect(), then ProgressBar::new(files.len()).
Enumerate ==
    /\ UNCHANGED <<mvars, dvars>>
    /\ run = "init"
    /\ files' = {p \in Paths : is_file(fs, p)}
    /\ queue' = files'
    /\ len' = Cardinality(files')
    /\ run' = "running"
    /\ UNCHANGED <<fs, env, formats, pc, cur, error_count, skipped_count, pos,
                   errors, skipped, panicked, outcome, handled>>

\* ------------------------------------------------------ the worker closure
\* A worker finishes with file f: back to the pool, result recorded.
Return(w, f, how) ==
    /\ pc' = [pc EXCEPT ![w] = "idle"]
    /\ cur' = [cur EXCEPT ![w] = <<>>]
    /\ outcome' = [outcome EXCEPT ![f] = how]

\* into_par_iter().progress_with(pb).for_each: a worker takes the next entry,
\* the bar advances, and the closure starts with its is_file test.
Dequeue(w) ==
    /\ UNCHANGED <<mvars, dvars>>
    /\ run = "running"
    /\ pc[w] = "idle"
    /\ \E f \in queue :
         /\ queue' = take(queue, f)
         /\ pos' = progress_inc(pos)
         /\ handled' = [handled EXCEPT ![f] = @ + 1]
         /\ IF is_file(fs, f)
            THEN /\ pc' = [pc EXCEPT ![w] = "classify"]
                 /\ cur' = [cur EXCEPT ![w] = <<f>>]
                 /\ UNCHANGED outcome
            ELSE Return(w, f, "vanished")
    /\ UNCHANGED <<fs, env, formats, run, files, error_count, skipped_count,
                   len, errors, skipped, panicked>>

\* The format the closure detects for the file worker w holds.
Detected(w) == detect_audio_format(cur[w][1], open_read(fs, cur[w][1]))

\* detected_format.is_none() || !formats.contains(detected_format.unwrap())
Rejected(w) == Detected(w) = NoFormat \/ ~contains(formats, Detected(w))

\* The skip branch: count and return.
Skip(w) ==
    /\ UNCHANGED <<mvars, dvars>>
    /\ pc[w] = "classify"
    /\ Rejected(w)
    /\ skipped_count' = fetch_add(skipped_count)
    /\ Return(w, cur[w][1], "skipped")
    /\ UNCHANGED <<fs, env, formats, run, files, queue, error_count, pos, len,
                   errors, skipped, panicked, handled>>

\* file_name().unwrap().to_str().unwrap() on a name that is not UTF-8: the
\* closure panics; rayon carries the panic to the caller of for_each.
Panic(w) ==
    /\ UNCHANGED <<mvars, dvars>>
    /\ pc[w] = "classify"
    /\ ~Rejected(w)
    /\ ~IsUtf8(cur[w][1])
    /\ panicked' = TRUE
    /\ Return(w, cur[w][1], "panic")
    /\ UNCHANGED <<fs, env, formats, run, files, queue, error_count,
                   skipped_count, pos, len, errors, skipped, handled>>

\* Command::new("ffmpeg")...status() returns Err: the process did not start.
SpawnFail(w) ==
    /\ UNCHANGED <<mvars, dvars>>
    /\ pc[w] = "classify"
    /\ ~Rejected(w)
    /\ IsUtf8(cur[w][1])
    /\ env' = [env EXCEPT ![cur[w][1]] = "spawn_err"]
    /\ error_count' = fetch_add(error_count)
    /\ Return(w, cur[w][1], "spawn_err")
    /\ UNCHANGED <<fs, formats, run, files, queue, skipped_count, pos, len,
                   errors, skipped, panicked, handled>>

\* status() started ffmpeg; the worker blocks until it exits.
Spawn(w) ==
    /\ UNCHANGED <<mvars, dvars>>
    /\ pc[w] = "classify"
    /\ ~Rejected(w)
    /\ IsUtf8(cur[w][1])
    /\ \E o \in Outcomes \ {"spawn_err"} : env' = [env EXCEPT ![cur[w][1]] = o]
    /\ pc' = [pc EXCEPT ![w] = "ffmpeg"]
    /\ UNCHANGED <<fs, formats, run, files, queue, cur, error_count,
                   skipped_count, pos, len, errors, skipped, panicked, outcome,
                   handled>>

\* ffmpeg -i path ... output_file -y runs and exits.  Without an input file
\* it fails and writes nothing; otherwise the environment decides whether it
\* succeeds (output complete) or fails (output written, or not).
FfmpegExit(w) ==
    /\ UNCHANGED <<mvars, dvars>>
    /\ pc[w] = "ffmpeg"
    /\ LET f == cur[w][1]
           out == output_file(f)
       IN  IF ~is_file(fs, f) \/ env[f] = "exit_fail_notemp"
           THEN /\ pc' = [pc EXCEPT ![w] = "failed"]
                /\ UNCHANGED fs
           ELSE /\ fs' = [fs EXCEPT ![out] = <<Transcode(fs[f][1])>>]
                /\ pc' = [pc EXCEPT ![w] =
                            IF env[f] \in {"ok", "rename_err"}
                            THEN "succeeded" ELSE "failed"]
    /\ UNCHANGED <<env, formats, run, files, queue, cur, error_count,
                   skipped_count, pos, len, errors, skipped, panicked, outcome,
                   handled>>

\* std::fs::rename(&output_file, path) fails: the environment refuses it, or
\* the temp file is not there.
RenameFails(f) == env[f] = "rename_err" \/ ~is_file(fs, output_file(f))

\* status.success(), rename succeeded: the transform is committed.
Commit(w) ==
    /\ UNCHANGED <<mvars, dvars>>
    /\ pc[w] = "succeeded"
    /\ ~RenameFails(cur[w][1])
    /\ fs' = rename(fs, output_file(cur[w][1]), cur[w][1])
    /\ Return(w, cur[w][1], "ok")
    /\ UNCHANGED <<env, formats, run, files, queue, error_count, skipped_count,
                   pos, len, errors, skipped, panicked, handled>>

\* status.success(), rename failed: logged and counted, nothing cleaned up.
RenameFail(w) ==
    /\ UNCHANGED <<mvars, dvars>>
    /\ pc[w] = "succeeded"
    /\ RenameFails(cur[w][1])
    /\ error_count' = fetch_add(error_count)
    /\ Return(w, cur[w][1], "rename_err")
    /\ UNCHANGED <<fs, env, formats, run, files, queue, skipped_count, pos, len,
                   errors, skipped, panicked, handled>>

\* Non-zero exit: remove the temp file if it exists (a failure to remove it
\* is only logged), then count the error.  The exists() test and the
\* remove_file that follows it are taken as one step: no other worker removes
\* this worker's temp path.
Abort(w) ==
    /\ UNCHANGED <<mvars, dvars>>
    /\ pc[w] = "failed"
    /\ LET f == cur[w][1]
           out == output_file(f)
       IN  IF ~is_file(fs, out)
           THEN /\ UNCHANGED fs
                /\ Return(w, f, "failed_notemp")
           ELSE IF env[f] = "remove_err"
           THEN /\ UNCHANGED fs
                /\ Return(w, f, "failed_left")
           ELSE /\ fs' = remove_file(fs, out)
                /\ Return(w, f, "failed_cleaned")
    /\ error_count' = fetch_add(error_count)
    /\ UNCHANGED <<env, formats, run, files, queue, skipped_count, pos, len,
                   errors, skipped, panicked, handled>>

\* --------------------------------------------------------- after the loop
\* A for_each that returns as soon as the list is drained (fire and forget).
AllDequeued == queue = {}

\* for_each returns once every entry was taken and every closure call ended.
AllJoined == queue = {} /\ \A w \in Workers : pc[w] = "idle"

\* finish_with_message, the two loads, Ok(()).
Finish ==
    /\ UNCHANGED <<mvars, dvars>>
    /\ run = "running"
    /\ ~panicked
    /\ AllJoined
    /\ errors' = error_count
    /\ skipped' = skipped_count
    /\ run' = "done"
    /\ UNCHANGED <<fs, env, formats, files, queue, pc, cur, error_count,
                   skipped_count, pos, len, panicked, outcome, handled>>

\* A panic in the closure leaves for_each by unwinding once the calls in
\* progress have ended: the code after the loop does not run.
Unwind ==
    /\ UNCHANGED <<mvars, dvars>>
    /\ run = "running"
    /\ panicked
    /\ \A w \in Workers : pc[w] = "idle"
    /\ run' = "aborted"
    /\ UNCHANGED <<fs, env, formats, files, queue, pc, cur, error_count,
                   skipped_count, pos, len, errors, skipped, panicked, outcome,
                   handled>>

\* -------------------------------------------------------------------- main
\* The variables of process_audio_files, untouched while main checks.
runvars == <<fs, env, files, queue, pc, cur, error_count, skipped_count, pos,
             len, errors, skipped, panicked, outcome, handled>>

\* !args.input.exists() or !args.input.is_dir(): exit(1).
BadRoot ==
    /\ run = "main"
    /\ exit_code = -1
    /\ root # "dir"
    /\ exit_code' = 1
    /\ UNCHANGED <<runvars, dvars, formats, run, root, args_formats>>

\* The selection is parsed and contains an unsupported token: exit(1).
BadFormats ==
    /\ run = "main"
    /\ exit_code = -1
    /\ root = "dir"
    /\ \E s \in FormatStrings :
         /\ ~ParseSelection(s).ok
         /\ args_formats' = <<s>>
         /\ formats' = ParseSelection(s).set
    /\ exit_code' = 1
    /\ UNCHANGED <<runvars, dvars, run, root>>

\* The selection is parsed, every token supported.
Parsed ==
    /\ run = "main"
    /\ exit_code = -1
    /\ root = "dir"
    /\ \E s \in FormatStrings :
         /\ ParseSelection(s).ok
         /\ args_formats' = <<s>>
         /\ formats' = ParseSelection(s).set
    /\ run' = "parsed"
    /\ UNCHANGED <<runvars, dvars, root, exit_code>>

\* selected_formats.is_empty(): exit(1); otherwise process_audio_files is
\* called with the selection (the string is not read again).
Call ==
    /\ run = "parsed"
    /\ exit_code = -1
    /\ IF formats = NoFormat
       THEN /\ exit_code' = 1
            /\ UNCHANGED <<run, args_formats>>
       ELSE /\ run' = "init"
            /\ args_formats' = <<>>
            /\ UNCHANGED exit_code
    /\ UNCHANGED <<runvars, dvars, formats, root>>

\* process_audio_files returned Ok(()): main returns Ok(()), status 0.
MainReturn ==
    /\ run = "done"
    /\ exit_code = -1
    /\ exit_code' = 0
    /\ UNCHANGED <<runvars, dvars, formats, run, root, args_formats>>

\* The panic reaches main: the process ends with status 101.
MainPanic ==
    /\ run = "aborted"
    /\ exit_code = -1
    /\ exit_code' = 101
    /\ UNCHANGED <<runvars, dvars, formats, run, root, args_formats>>

Next ==
    \/ BadRoot
    \/ BadFormats
    \/ Parsed
    \/ Call
    \/ MainReturn
    \/ MainPanic
    \/ Enumerate
    \/ \E w \in Workers :
         \/ Dequeue(w)
         \/ Skip(w)
         \/ Panic(w)
         \/ SpawnFail(w)
         \/ Spawn(w)
         \/ FfmpegExit(w)
         \/ Commit(w)
         \/ RenameFail(w)
         \/ Abort(w)
    \/ Finish
    \/ Unwind

Spec == Init /\ [][Next]_vars

\* One worker thread's steps, and the main thread's.
WorkerStep(w) ==
    \/ Dequeue(w) \/ Skip(w) \/ Panic(w) \/ SpawnFail(w) \/ Spawn(w)
    \/ FfmpegExit(w) \/ Commit(w) \/ RenameFail(w) \/ Abort(w)
MainStep ==
    \/ BadRoot \/ BadFormats \/ Parsed \/ Call \/ Enumerate \/ Finish \/ Unwind
    \/ MainReturn \/ MainPanic

\* The operating system runs every thread that can run, and every ffmpeg
\* that was started exits.
FairSpec == Spec /\ WF_vars(MainStep) /\ \A w \in Workers : WF_vars(WorkerStep(w))

\* -------------------------------------------- the same list, single-threaded
\* The closure run to its end on one file with nobody else running, on a
\* state [fs, errors, skipped, panicked], under the same environment.
SeqHandle(st, f) ==
    LET d == detect_audio_format(f, open_read(st.fs, f))
        out == output_file(f)
        written == [st.fs EXCEPT ![out] = <<Transcode(st.fs[f][1])>>]
        failed == [st EXCEPT !.errors = @ + 1]
    IN  IF st.panicked \/ ~is_file(st.fs, f) THEN st
        ELSE IF d = NoFormat \/ ~contains(formats, d)
        THEN [st EXCEPT !.skipped = @ + 1]
        ELSE IF ~IsUtf8(f) THEN [st EXCEPT !.panicked = TRUE]
        ELSE IF env[f] \in {"spawn_err", "exit_fail_notemp"} THEN failed
        ELSE IF env[f] = "ok" THEN [st EXCEPT !.fs = rename(written, out, f)]
        ELSE IF env[f] = "exit_fail"
        THEN [failed EXCEPT !.fs = remove_file(written, out)]
        ELSE [failed EXCEPT !.fs = written]

RECURSIVE SeqRun(_, _)
\* The closure applied to the entries of S one after the other.
SeqRun(S, st) ==
    IF S = {} THEN st
    ELSE LET f == CHOOSE x \in S : TRUE
         IN  SeqRun(S \ {f}, SeqHandle(st, f))

\* The single-threaded run of the enumerated list from the folder as it was.
Sequential ==
    SeqRun(files, [fs |-> [p \in Paths |-> IF p \in files THEN <<Original(p)>>
                                           ELSE <<>>],
                   errors |-> 0, skipped |-> 0, panicked |-> FALSE])

\* ------------------------------------------------------------ vocabulary
\* The paths the closure touches for a file: the file and its temp sibling.
Footprint(f) == {f} \cup (IF IsUtf8(f) THEN {output_file(f)} ELSE {})

\* The entries share no path: no footprint meets another's.
Independent(S) ==
    \A f \in S : \A g \in S : f # g => Footprint(f) \cap Footprint(g) = {}

\* The files on which Command::status() was called.
Attempted == {f \in files : env[f] # "unset"}

\* The files whose ffmpeg ran to exit and whose handling has ended.
RanToExit ==
    {f \in files : outcome[f] \in {"ok", "rename_err", "failed_notemp",
                                   "failed_left", "failed_cleaned"}}

\* The files whose transform did not succeed: no launch, or non-zero exit.
Unsuccessful ==
    {f \in files : outcome[f] \in {"spawn_err", "failed_notemp",
                                   "failed_left", "failed_cleaned"}}

\* ================================================================= claims

\* C1 (as claimed): no enumerated source file is ever deleted or overwritten
\* by another file's transform output; each source path always holds content
\* that came from that very file.
C1_SourceOnlyReplacedByOwnOutput ==
    \A f \in files : is_file(fs, f) /\ fs[f][1].origin = f

\* C2 (as claimed): once ffmpeg ran to exit on a file and the worker is done
\* with it, its temp artifact does not exist, on every exit path.
C2_NoTempAfterCompletedAttempt ==
    \A f \in RanToExit : ~is_file(fs, output_file(f))

\* C2 (amended): when the handling of a file whose ffmpeg ran to exit ends
\* with a successful rename, a successful deletion, or no temp file found,
\* the temp artifact does not exist right after that last filesystem call.
C2_TempGoneUnlessCleanupFailed ==
    [][\A f \in files :
          (outcome[f] = "none"
             /\ outcome'[f] \in {"ok", "failed_cleaned", "failed_notemp"})
          => ~is_file(fs', output_file(f))]_vars

C2_Witness ==
    \E f \in files : \E g \in files :
       /\ outcome[f] = "failed_cleaned" /\ ~is_file(fs, output_file(f))
       /\ outcome[g] = "ok" /\ ~is_file(fs, output_file(g))

\* C3 (as claimed): after the run, a file whose transform did not succeed
\* holds exactly the content it had before the run.
C3_FailedTransformLeavesOriginal ==
    run = "done" => \A f \in Unsuccessful : fs[f] = <<Original(f)>>

\* C4 (as claimed): when the run has returned, skipped files plus files on
\* which a transform was attempted are all N enumerated files.
C4_EveryFileAccounted ==
    run = "done" => skipped + Cardinality(Attempted) = len

\* C5 (as claimed): no file's failure aborts the run.
C5_NoFileFailureAbortsRun ==
    run # "aborted"

\* C6: every file is handed out at most once, to one worker; no two workers
\* hold the same file; a finished run has handed out every file exactly once.
C6_EachFileHandledOnce ==
    /\ \A f \in Pool : handled[f] <= 1
    /\ \A f \in files : handled[f] = 1 <=> f \notin queue
    /\ \A v \in Workers : \A w \in Workers :
          (v # w /\ cur[v] # <<>>) => cur[v] # cur[w]
    /\ run = "done" => \A f \in files : handled[f] = 1

C6_Witness ==
    /\ pc[1] = "ffmpeg"
    /\ pc[2] = "ffmpeg"
    /\ queue # {}

\* C7 (as claimed): two workers handling files at the same time touch
\* disjoint sets of paths.
C7_DisjointFootprints ==
    \A v \in Workers : \A w \in Workers :
       (v # w /\ cur[v] # <<>> /\ cur[w] # <<>>)
       => Footprint(cur[v][1]) \cap Footprint(cur[w][1]) = {}

\* C8: for files that share no path, the counters read after the parallel
\* run are those of the single-threaded run of the same list under the same
\* per-file outcomes.
C8_CountersMatchSequential ==
    (run = "done" /\ Independent(files))
    => /\ errors = Sequential.errors
       /\ skipped = Sequential.skipped

C8_Witness ==
    /\ run = "done"
    /\ Independent(files)
    /\ errors = 2
    /\ skipped = 1

\* C9: the run is finished only when no file is waiting and no worker is
\* handling one, every file's handling having ended.
C9_ReturnsAfterJoin ==
    run = "done"
    => /\ queue = {}
       /\ \A w \in Workers : pc[w] = "idle" /\ cur[w] = <<>>
       /\ \A f \in files : outcome[f] # "none"

C9_Witness ==
    /\ run = "done"
    /\ len = MaxFiles
    /\ \E f \in files : outcome[f] = "ok"
    /\ \E f \in files : outcome[f] = "failed_cleaned"

\* C10: the bar's position is the number of files dequeued, never above the
\* total fixed at enumeration, and equal to it when the run is finalized.
C10_ProgressOncePerFile ==
    /\ pos = Cardinality(files \ queue)
    /\ pos <= len
    /\ run = "done" => pos = len

C10_Witness ==
    /\ run = "done"
    /\ pos = MaxFiles
    /\ \E f \in files : outcome[f] = "skipped"
    /\ \E f \in files : outcome[f] = "ok"
    /\ \E f \in files : outcome[f] = "rename_err"


\* ============================================ detect_audio_format on its own
\* The names and contents detect_audio_format is applied to.
DetectStems == { <<"x">>, <<"a", ".", "b">> }
DetectExts ==
    { <<"o", "g", "g">>, <<"O", "g", "G">>, <<"m", "p", "3">>, <<"M", "P", "3">>,
      <<"w", "a", "v">>, <<"W", "A", "V">>, <<"f", "l", "a", "c">>,
      <<"m", "4", "a">>, <<"A", "A", "C">>, <<"o", "p", "u", "s">>,
      <<"a", "l", "a", "c">>, <<"W", "m", "a">>, <<"d", "a", "t">>,
      <<"t", "x", "t">>, <<"o", "g", InvalidByte>>, <<>> }
DetectNames ==
    {st \o <<".">> \o e : st \in DetectStems, e \in DetectExts}
    \cup { <<"x">>, <<".", "o", "g", "g">> }

Zeros(n) == [i \in 1..n |-> 0]

DetectContents ==
    { <<79, 103, 103, 83>> \o Zeros(8),
      <<79, 103, 103, 83>> \o Zeros(12),
      <<79, 103, 103, 83>>,
      <<73, 68, 51>> \o Zeros(9),
      <<73, 68, 51>> \o Zeros(8),
      <<82, 73, 70, 70>> \o Zeros(4) \o <<87, 65, 86, 69>>,
      <<82, 73, 70, 70>> \o Zeros(8),
      <<102, 76, 97, 67>> \o Zeros(8),
      <<102, 76, 97>>,
      <<48, 38, 178, 117>> \o Zeros(8),
      <<1, 2, 3, 4, 5, 6, 7, 8, 9, 10, 11, 12>>,
      <<>> }
    \cup { <<255, b>> \o Zeros(10) : b \in 0..255 }
    \cup { <<255, 251>>, <<254, 251>> \o Zeros(10) }

DetectInit ==
    /\ d_name \in DetectNames
    /\ d_opened \in {<<>>} \cup {<<c>> : c \in DetectContents}
    /\ d_result = <<>>
    /\ formats = NoFormat
    /\ root = "missing"
    /\ fs = [p \in Paths |-> <<>>]
    /\ args_formats = <<>>
    /\ exit_code = -1
    /\ env = [n \in Pool |-> "unset"]
    /\ run = "main"
    /\ files = {}
    /\ queue = {}
    /\ pc = [w \in Workers |-> "idle"]
    /\ cur = [w \in Workers |-> <<>>]
    /\ error_count = 0
    /\ skipped_count = 0
    /\ pos = 0
    /\ len = 0
    /\ errors = 0
    /\ skipped = 0
    /\ panicked = FALSE
    /\ outcome = [n \in Pool |-> "none"]
    /\ handled = [n \in Pool |-> 0]

\* detect_audio_format is called on the file.
Detect ==
    /\ d_result = <<>>
    /\ d_result' = <<detect_audio_format(d_name, d_opened)>>
    /\ UNCHANGED <<runvars, mvars, formats, run, d_name, d_opened>>

DetectNext == Detect

DetectSpec == DetectInit /\ [][DetectNext]_vars

\* The format whose magic signature the leading bytes b show, NoFormat when
\* they show none.
Signature(b) ==
    IF Len(b) >= 4 /\ SubSeq(b, 1, 4) = <<79, 103, 103, 83>> THEN OGG
    ELSE IF (Len(b) >= 3 /\ SubSeq(b, 1, 3) = <<73, 68, 51>>)
            \/ (Len(b) >= 2 /\ b[1] = 255 /\ b[2] \in {242, 243, 250, 251})
         THEN MP3
    ELSE IF Len(b) >= 12 /\ SubSeq(b, 1, 4) = <<82, 73, 70, 70>>
            /\ SubSeq(b, 9, 12) = <<87, 65, 86, 69>> THEN WAV
    ELSE IF Len(b) >= 4 /\ SubSeq(b, 1, 4) = <<102, 76, 97, 67>> THEN FLAC
    ELSE IF Len(b) >= 4 /\ SubSeq(b, 1, 4) = <<48, 38, 178, 117>> THEN WMA
    ELSE NoFormat

\* The fixed extension table of the specification.
ExtTable ==
    { << <<"o", "g", "g">>, OGG >>, << <<"m", "p", "3">>, MP3 >>,
      << <<"w", "a", "v">>, WAV >>, << <<"f", "l", "a", "c">>, FLAC >>,
      << <<"m", "4", "a">>, AAC >>, << <<"a", "a", "c">>, AAC >>,
      << <<"o", "p", "u", "s">>, OPUS >>, << <<"a", "l", "a", "c">>, ALAC >>,
      << <<"w", "m", "a">>, WMA >> }

\* The table's format for a lower-case extension, NoFormat when not listed.
Lookup(e) ==
    IF \E r \in ExtTable : r[1] = e
    THEN (CHOOSE r \in ExtTable : r[1] = e)[2]
    ELSE NoFormat

\* ASCII upper-casing of a character, and a name with its extension in
\* upper case / in lower case.
UpperChar(c) ==
    IF \E i \in 1..Len(LowerAlpha) : LowerAlpha[i] = c
    THEN UpperAlpha[CHOOSE i \in 1..Len(LowerAlpha) : LowerAlpha[i] = c]
    ELSE c
Lowered(e) == [i \in 1..Len(e) |-> LowerChar(e[i])]
ExtStart(name) == Len(name) - Len(extension(name)[1]) + 1
WithUpperExt(name) ==
    [i \in 1..Len(name) |-> IF i >= ExtStart(name) THEN UpperChar(name[i]) ELSE name[i]]
WithLowerExt(name) ==
    [i \in 1..Len(name) |-> IF i >= ExtStart(name) THEN LowerChar(name[i]) ELSE name[i]]

\* The call was made on a file whose content shows no signature (or that
\* could not be opened).
NoSignatureSeen ==
    /\ d_result # <<>>
    /\ d_opened = <<>> \/ Signature(d_opened[1]) = NoFormat

\* C11 (as claimed): a file whose leading bytes match a known signature is
\* given that signature's format, whatever its extension and length.
C11_SignatureWinsAnyLength ==
    (d_result # <<>> /\ d_opened # <<>> /\ Signature(d_opened[1]) # NoFormat)
    => d_result[1] = Signature(d_opened[1])

\* C11 (amended): a readable file of at least 12 bytes whose leading bytes
\* match a known signature is given that signature's format, whatever its
\* extension.
C11_SignatureWinsFrom12Bytes ==
    (d_result # <<>> /\ d_opened # <<>> /\ Len(d_opened[1]) >= 12
       /\ Signature(d_opened[1]) # NoFormat)
    => d_result[1] = Signature(d_opened[1])

C11_Witness ==
    /\ d_name = <<"x", ".", "m", "p", "3">>
    /\ d_opened = << <<79, 103, 103, 83>> \o Zeros(8) >>
    /\ d_result = <<OGG>>

\* C12: without a signature the result is the table's entry for the
\* lower-cased extension, the same for the name with its extension in upper
\* or lower case, and no format when the extension is absent or not listed.
C12_ExtensionFallback ==
    NoSignatureSeen
    => /\ extension(d_name) = <<>> => d_result[1] = NoFormat
       /\ (extension(d_name) # <<>> /\ ~IsUtf8(extension(d_name)[1]))
             => d_result[1] = NoFormat
       /\ (extension(d_name) # <<>> /\ IsUtf8(extension(d_name)[1]))
             => /\ d_result[1] = Lookup(Lowered(extension(d_name)[1]))
                /\ d_result[1] = detect_audio_format(WithUpperExt(d_name), d_opened)
                /\ d_result[1] = detect_audio_format(WithLowerExt(d_name), d_opened)

C12_Witness ==
    /\ d_name = <<"x", ".", "W", "A", "V">>
    /\ d_opened = << <<1, 2, 3, 4, 5, 6, 7, 8, 9, 10, 11, 12>> >>
    /\ d_result = <<WAV>>

\* The call was made on a file of at least 12 bytes that starts with 0xFF
\* (so not with ID3) and whose name has no listed extension: the result is
\* MP3 only through the frame-sync rule.
FrameSyncCase ==
    /\ d_result # <<>>
    /\ d_opened # <<>>
    /\ Len(d_opened[1]) >= 12
    /\ d_opened[1][1] = 255
    /\ ExtensionFormat(d_name) = NoFormat

Accepted(f) ==
    LET d == detect_audio_format(f, <<BytesOf(f)>>)
    IN  d # NoFormat /\ contains(formats, d)

\* The outcomes that count an error.
ErrorOutcomes ==
    {"spawn_err", "rename_err", "failed_notemp", "failed_left", "failed_cleaned"}

\* The files whose handling ends in the step.
Ending == {f \in Pool : outcome[f] = "none" /\ outcome'[f] # "none"}

\* The string is a valid selection: "all", or supported names only.
ValidSelection(s) ==
    \/ Lowered(s) = <<"a", "l", "l">>
    \/ \A i \in 1..Len(split(s)) : TokenFormat(Lowered(trim(split(s)[i]))) # NoFormat

\* The eight single formats.
FormatBits == {OGG, MP3, WAV, FLAC, AAC, OPUS, ALAC, WMA}

RECURSIVE UnionBits(_)
\* The set with exactly the bits of S.
UnionBits(S) ==
    IF S = {} THEN 0
    ELSE LET b == CHOOSE x \in S : TRUE IN b + UnionBits(S \ {b})

\* C13 (as claimed): once a file's handling has ended, ffmpeg was launched
\* on it exactly if its format is detected and selected; any other file was
\* counted as skipped, has no temp artifact and is unmodified.
C13_LaunchedIffSelected ==
    \A f \in files :
       outcome[f] # "none"
       => /\ f \in Attempted <=> Accepted(f)
          /\ ~Accepted(f)
                => /\ outcome[f] = "skipped"
                   /\ fs[f] = <<Original(f)>>
                   /\ IsUtf8(f) => ~is_file(fs, output_file(f))

\* C14: a configuration error ends the program with status 1 before
\* process_audio_files is called, and process_audio_files is only ever
\* called for a folder with a valid, non-empty selection.
C14_ConfigErrorsBeforeProcessing ==
    /\ exit_code = 1
          => /\ run \in {"main", "parsed"}
             /\ files = {} /\ pos = 0
             /\ \A p \in Paths : fs[p] = <<>> \/ fs[p] = <<Original(p)>>
    /\ run = "parsed" => root = "dir" /\ ValidSelection(args_formats[1])
    /\ run \notin {"main", "parsed"}
          => root = "dir" /\ formats # NoFormat /\ exit_code # 1

C14_Witness ==
    /\ exit_code = 1
    /\ args_formats = << <<"o", "g", "g", ",", "x", "y", "z">> >>
    /\ is_file(fs, NameOgg)

\* C15 (as claimed): the process ends with a failure status only for a
\* configuration error; process_audio_files always returns Ok(()).
C15_ExitReflectsOnlyConfigErrors ==
    exit_code \notin {-1, 0} => run \in {"main", "parsed"}

\* C16: the parsed selection is the set of the distinct tokens' formats,
\* whatever their order and repetition; "all", the eight names listed, and
\* the default set accept the same formats.
C16_SelectionIsSetOfTokens ==
    run = "parsed"
    => LET s == args_formats[1]
           toks == {Lowered(trim(split(s)[i])) : i \in 1..Len(split(s))}
       IN  /\ Lowered(s) # <<"a", "l", "l">>
                => formats = UnionBits({TokenFormat(t) : t \in toks})
           /\ (Lowered(s) = <<"a", "l", "l">> \/ toks = {FormatNames[i] : i \in 1..Len(FormatNames)})
                => \A d \in FormatBits :
                      contains(formats, d) /\ contains(Default, d)
           /\ ALL = Default

C16_Witness ==
    /\ run = "parsed"
    /\ args_formats = <<Join(NamesReversed)>>
    /\ formats = ALL

\* C17: the two counters never decrease, and the files counted as skipped
\* or as errors, and those skipped or attempted, never outnumber the
\* enumerated files.
C17_CountersMonotoneAndBounded ==
    /\ [](/\ skipped_count + Cardinality(Attempted) <= len
          /\ skipped_count + error_count <= len)
    /\ [][error_count' >= error_count /\ skipped_count' >= skipped_count]_vars

C17_Witness ==
    /\ run = "running"
    /\ len = MaxFiles
    /\ skipped_count + Cardinality(Attempted) = len
    /\ error_count >= 1
    /\ skipped_count >= 1

\* C19: a step changes the counters only by ending a file's handling, and
\* then by exactly one on error_count for an error, one on skipped_count for
\* a skip, nothing for a committed file; a file's handling ends once.
C19_OneCountPerFile ==
    [][/\ Cardinality(Ending) <= 1
       /\ \A f \in Pool : outcome[f] # "none" => outcome'[f] = outcome[f]
       /\ error_count' - error_count =
             Cardinality({f \in Ending : outcome'[f] \in ErrorOutcomes})
       /\ skipped_count' - skipped_count =
             Cardinality({f \in Ending : outcome'[f] = "skipped"})]_vars

C19_Witness ==
    /\ error_count = 1
    /\ skipped_count = 1
    /\ \E f \in files : outcome[f] = "ok"

\* C20 (as claimed): under fair scheduling a run that was started
\* eventually returns.
C20_RunEventuallyReturns ==
    (run = "init") ~> (run = "done")

====
